---- MODULE Spec2Model ----
(***************************************************************************)
(* Model of dt_api.py, the Droptime dispatch client.                       *)
(*                                                                         *)
(* Spec        : the configuration file, the session refresh and the       *)
(*               generic API call, with the remote service as a            *)
(*               nondeterministic environment.                             *)
(* SpecReformat: reformat_dispatch applied to bounded dispatch records.    *)
(***************************************************************************)
EXTENDS Integers, Sequences, FiniteSets, TLC

VARIABLES
  file,        \* the configuration file
  op,          \* the function called by the user
  pc,          \* where that call stands
  attempt,     \* make_api_call's attempt argument
  requests,    \* the HTTP requests sent, in order
  responses,   \* the answers received, responses[i] answering requests[i]
  result,      \* what the call returned or raised
  persisted,   \* the last call of update_config_file: its argument and the file before it
  dispatch,    \* the argument of reformat_dispatch
  reformatted  \* its result

vars == <<file, op, pc, attempt, requests, responses, result, persisted,
          dispatch, reformatted>>

clientVars == <<file, op, pc, attempt, requests, responses, result, persisted>>
reformatVars == <<dispatch, reformatted>>

(***************************************************************************)
(* Bounds                                                                  *)
(***************************************************************************)
\* credential values handed out by the service are 1..NumVals; 0 is the
\* value the operator seeded the file with
NumVals == 2

NewVals == 1 .. NumVals

(***************************************************************************)
(* Configuration file                                                      *)
(***************************************************************************)
REQUIRED_FIELDS ==
  <<"CompanyID", "Manager", "Passcode", "SessionID", "SessionPassword", "UserName">>

Required == {REQUIRED_FIELDS[i] : i \in 1 .. Len(REQUIRED_FIELDS)}

\* keys a configuration file of the model may hold: the required ones and
\* one operator key outside the required set
FileKeys == Required \cup {"Note"}

EmptyMap == [k \in {} |-> 0]

\* a file is an empty YAML document (parsed as None) or a mapping
NoDoc == [doc |-> "none", map |-> EmptyMap]
MapDoc(m) == [doc |-> "map", map |-> m]

NoResult == [kind |-> "none", error |-> "", value |-> EmptyMap]
Ok(v) == [kind |-> "ok", error |-> "", value |-> v]
Raise(e) == [kind |-> "error", error |-> e, value |-> EmptyMap]

\* a merge that keeps the old value of a key both have
MergeKeepOld(m, u) ==
  [k \in DOMAIN m \cup DOMAIN u |-> IF k \in DOMAIN m THEN m[k] ELSE u[k]]

\* dict.update: the keys of u override those of m
Merge(m, u) ==
  [k \in DOMAIN m \cup DOMAIN u |-> IF k \in DOMAIN u THEN u[k] ELSE m[k]]

\* load_config: yaml.safe_load, then the membership test of every required
\* field; `field in None` raises TypeError
load_config(f) ==
  IF f.doc = "none" THEN Raise("TypeError")
  ELSE IF \A i \in 1 .. Len(REQUIRED_FIELDS) : REQUIRED_FIELDS[i] \in DOMAIN f.map
       THEN Ok(f.map)
       ELSE Raise("ValueError")

\* the keys update_config_file assigns
UpdatedKeys(updates) == {k \in Required : k \in DOMAIN updates}

\* an update that writes every key of updates
update_config_file_all(f, updates) ==
  IF f.doc = "none" THEN f
  ELSE MapDoc([k \in DOMAIN f.map \cup DOMAIN updates |->
                 IF k \in DOMAIN updates THEN updates[k] ELSE f.map[k]])

\* update_config_file: the file after the call; item assignment on None
\* raises TypeError before the file is opened for writing
update_config_file(f, updates) ==
  IF f.doc = "none" THEN f
  ELSE MapDoc([k \in DOMAIN f.map \cup UpdatedKeys(updates) |->
                 IF k \in UpdatedKeys(updates) THEN updates[k] ELSE f.map[k]])

update_config_file_raises(f, updates) ==
  f.doc = "none" /\ UpdatedKeys(updates) # {}

(***************************************************************************)
(* HTTP requests                                                           *)
(***************************************************************************)
\* the attempt number up to which ErrorCode "1" triggers a refresh
RetryLimit == 2

StartTime == "2021-01-01"
EndTime == "2021-01-31"

\* session_params / api_params start from the required keys of the config
RequiredParams(config) == [k \in Required \cap DOMAIN config |-> config[k]]

SessionRequest(config) ==
  [Method |-> "StartAPISession", params |-> RequiredParams(config)]

\* a request that sends the session id as SP
ApiRequestWrongSP(method, config) ==
  [Method |-> method,
   params |-> [k \in (Required \cap DOMAIN config) \cup {"StartTime", "EndTime", "SP"} |->
                 IF k = "StartTime" THEN StartTime
                 ELSE IF k = "EndTime" THEN EndTime
                 ELSE IF k = "SP" THEN config["SessionID"]
                 ELSE config[k]]]

ApiRequest(method, config) ==
  LET base == RequiredParams(config)
      dated == Merge(base, [k \in {"StartTime", "EndTime"} |->
                              IF k = "StartTime" THEN StartTime ELSE EndTime])
  IN [Method |-> method,
      params |-> IF "SessionID" \in DOMAIN config /\ "SessionPassword" \in DOMAIN config
                 THEN Merge(dated, [k \in {"SessionID", "SP"} |->
                                      IF k = "SessionID" THEN config["SessionID"]
                                      ELSE config["SessionPassword"]])
                 ELSE dated]

\* answers of the remote service: the transport or the status fails, or a
\* JSON body arrives
Failure == [kind |-> "fail", body |-> EmptyMap]
Json(body) == [kind |-> "json", body |-> body]

Field(k, v) == [x \in {k} |-> v]

\* ErrorCode "1" is 1 here, any other code is 2
ApiBodies == {Field("ErrorCode", 1), Field("ErrorCode", 2)}
               \cup {Field("Items", n) : n \in NewVals}
ApiResponses == {Failure} \cup {Json(b) : b \in ApiBodies}

SiKeys == {"SessionID", "SessionPassword", "Note"}
SessionInfos == UNION {[D -> NewVals] : D \in SUBSET SiKeys}
SessionResponses ==
  {Failure, Json(Field("ErrorCode", 1))}
    \cup {Json(Field("SessionInformation", si)) : si \in SessionInfos}

\* a retry on any error code
ShouldRetryAnyError(data, n) ==
  /\ "ErrorCode" \in DOMAIN data
  /\ n <= RetryLimit

\* data.get("ErrorCode") == "1" and attempt <= 2
ShouldRetry(data, n) ==
  /\ "ErrorCode" \in DOMAIN data
  /\ data["ErrorCode"] = 1
  /\ n <= RetryLimit

\* a check that misses the absent SessionInformation
SessionFailedTransportOnly(r) == r.kind = "fail"

\* fetch_new_session raises: raise_for_status, or no SessionInformation
SessionFailed(r) ==
  \/ r.kind = "fail"
  \/ "SessionInformation" \notin DOMAIN r.body

SessionError(r) == IF r.kind = "fail" THEN "RequestException" ELSE "ValueError"

\* data["SessionInformation"]
SessionInformation(r) ==
  IF "SessionInformation" \in DOMAIN r.body THEN r.body["SessionInformation"] ELSE EmptyMap

(***************************************************************************)
(* reformat_dispatch                                                       *)
(*                                                                         *)
(* A string is a sequence of one-character strings.  A JSON value is a     *)
(* record: None, a string, an integer or a list of sub-items.              *)
(***************************************************************************)
\* longest string value of an input record
MaxLen == 1
\* most line items of an input record
MaxItems == 2

None == [t |-> "none", s |-> <<>>, n |-> 0, l |-> <<>>]
Str(s) == [t |-> "str", s |-> s, n |-> 0, l |-> <<>>]
Number(n) == [t |-> "int", s |-> <<>>, n |-> n, l |-> <<>>]
List(l) == [t |-> "list", s |-> <<>>, n |-> 0, l |-> l]

Digits == <<"0", "1", "2", "3", "4", "5", "6", "7", "8", "9">>
Whitespace == {" "}

RECURSIVE IntToStr(_)
\* str() of a non-negative integer
IntToStr(n) ==
  IF n < 10 THEN <<Digits[n + 1]>>
  ELSE IntToStr(n \div 10) \o <<Digits[(n % 10) + 1]>>

\* str(value)
StrOf(v) == IF v.t = "str" THEN v.s ELSE IntToStr(v.n)

\* truth value of a JSON value, as `or` and `if` take it
Truthy(v) ==
  \/ v.t = "str" /\ v.s # <<>>
  \/ v.t = "int" /\ v.n # 0
  \/ v.t = "list" /\ v.l # <<>>

RECURSIVE Join(_, _)
\* sep.join(strings)
Join(strings, sep) ==
  IF strings = <<>> THEN <<>>
  ELSE IF Len(strings) = 1 THEN strings[1]
  ELSE strings[1] \o sep \o Join(Tail(strings), sep)

RECURSIVE Split(_, _)
\* s.split(c) for a one-character separator
Split(s, c) ==
  IF \A i \in 1 .. Len(s) : s[i] # c THEN <<s>>
  ELSE LET i == CHOOSE j \in 1 .. Len(s) :
                  s[j] = c /\ \A k \in 1 .. j - 1 : s[k] # c
       IN <<SubSeq(s, 1, i - 1)>> \o Split(SubSeq(s, i + 1, Len(s)), c)

RECURSIVE LStrip(_, _)
LStrip(s, chars) ==
  IF s # <<>> /\ s[1] \in chars THEN LStrip(Tail(s), chars) ELSE s

RECURSIVE RStrip(_, _)
RStrip(s, chars) ==
  IF s # <<>> /\ s[Len(s)] \in chars THEN RStrip(SubSeq(s, 1, Len(s) - 1), chars) ELSE s

\* s.strip(chars)
StripChars(s, chars) == RStrip(LStrip(s, chars), chars)

\* s.strip()
Strip(s) == StripChars(s, Whitespace)

DigitValue(c) == (CHOOSE d \in 1 .. Len(Digits) : Digits[d] = c) - 1
IsDigit(c) == \E d \in 1 .. Len(Digits) : Digits[d] = c

\* float(s) succeeds; over digits, letters, ";" and inner blanks exactly
\* the non-empty digit strings are floats
ParsesAsFloat(s) == s # <<>> /\ \A i \in 1 .. Len(s) : IsDigit(s[i])

RECURSIVE FloatOf(_)
\* float(s) for a digit string
FloatOf(s) ==
  IF s = <<>> THEN 0
  ELSE 10 * FloatOf(SubSeq(s, 1, Len(s) - 1)) + DigitValue(s[Len(s)])

initial_keys ==
  <<"shiftid", "startdatetime", "enddatetime", "dispatchnotes", "tph", "tpr", "totalsy">>

lineitems_attributes ==
  <<"phase", "phasedesc", "qty", "notes", "mix", "mixdesc", "job">>

LineKeys == {lineitems_attributes[i] : i \in 1 .. Len(lineitems_attributes)}

Separator == <<";", " ">>

\* the initial data: the initial keys the dispatch has
InitialData(d) ==
  [k \in {initial_keys[i] : i \in 1 .. Len(initial_keys)} \cap DOMAIN d.scalars |->
     d.scalars[k]]

\* the crew entry, set when crew is a dict with both names
CrewData(d) ==
  IF d.crew.isdict /\ "firstname" \in DOMAIN d.crew.map /\ "lastname" \in DOMAIN d.crew.map
  THEN Field("crew", Str(d.crew.map["firstname"] \o <<" ">> \o d.crew.map["lastname"]))
  ELSE EmptyMap

\* the itemdesc of the sub-items that have one
SubItemDescs(l) ==
  LET kept == SelectSeq(l, LAMBDA item : "itemdesc" \in DOMAIN item)
  IN [i \in 1 .. Len(kept) |-> kept[i]["itemdesc"]]

\* field.get("itemdesc") or field.get("itemvalue"), a list joined
ItemValue(field) ==
  LET desc == IF "itemdesc" \in field.has THEN field.itemdesc ELSE None
      raw == IF Truthy(desc) THEN desc
             ELSE IF "itemvalue" \in field.has THEN field.itemvalue ELSE None
  IN IF raw.t = "list" THEN Str(Join(SubItemDescs(raw.l), Separator)) ELSE raw

RECURSIVE ProcessFields(_, _)
\* the loop over dispatch["fields"]
ProcessFields(fields, acc) ==
  IF fields = <<>> THEN acc
  ELSE LET field == Head(fields)
           value == ItemValue(field)
       IN ProcessFields(Tail(fields),
            IF "catname" \in field.has /\ field.catname # "" /\ value.t # "none"
            THEN Merge(acc, Field(field.catname, value))
            ELSE acc)

\* an accumulation that tests the value's truth instead of `is not None`
AccumulateSkipEmpty(values, key, item) ==
  IF key \in DOMAIN item /\ Truthy(item[key])
  THEN IF key = "job"
       THEN LET job_str == Strip(StripChars(StrOf(item[key]), {";", " "}))
            IN IF \E i \in 1 .. Len(values) : values[i] = job_str
               THEN values
               ELSE Append(values, job_str)
       ELSE Append(values, StrOf(item[key]))
  ELSE values

\* one line item's contribution to the list of an attribute
Accumulate(values, key, item) ==
  IF key \in DOMAIN item /\ item[key].t # "none"
  THEN IF key = "job"
       THEN LET job_str == Strip(StripChars(StrOf(item[key]), {";", " "}))
            IN IF \E i \in 1 .. Len(values) : values[i] = job_str
               THEN values
               ELSE Append(values, job_str)
       ELSE Append(values, StrOf(item[key]))
  ELSE values

RECURSIVE AttributeValues(_, _, _)
\* the list of an attribute after the loop over dispatch["lineitems"]
AttributeValues(items, key, values) ==
  IF items = <<>> THEN values
  ELSE AttributeValues(Tail(items), key, Accumulate(values, key, Head(items)))

\* the joined lists
LineItemData(d) ==
  [k \in LineKeys |-> Str(Join(AttributeValues(d.lineitems, k, <<>>), Separator))]

RECURSIVE SumFloatsSkipBad(_, _)
\* a sum that skips the pieces that are no floats
SumFloatsSkipBad(pieces, total) ==
  IF pieces = <<>> THEN [ok |-> TRUE, total |-> total]
  ELSE LET qty == Strip(Head(pieces))
       IN IF ParsesAsFloat(qty) THEN SumFloatsSkipBad(Tail(pieces), total + FloatOf(qty))
          ELSE SumFloatsSkipBad(Tail(pieces), total)

RECURSIVE SumFloats(_, _)
\* sum(float(qty.strip()) for qty in pieces if qty.strip()); a piece that
\* is no float ends the sum with ValueError
SumFloats(pieces, total) ==
  IF pieces = <<>> THEN [ok |-> TRUE, total |-> total]
  ELSE LET qty == Strip(Head(pieces))
       IN IF qty = <<>> THEN SumFloats(Tail(pieces), total)
          ELSE IF ParsesAsFloat(qty) THEN SumFloats(Tail(pieces), total + FloatOf(qty))
          ELSE [ok |-> FALSE, total |-> 0]

\* total_tonnage
MaterialTonnage(qty) ==
  LET summed == SumFloats(Split(qty, ";"), 0)
  IN IF summed.ok THEN summed.total ELSE 0

reformat_dispatch(d) ==
  LET initial == InitialData(d)
      crewed == Merge(initial, CrewData(d))
      fielded == ProcessFields(d.fields, crewed)
      lined == Merge(fielded, LineItemData(d))
  IN Merge(lined, Field("Material Tonnage", Number(MaterialTonnage(lined["qty"].s))))

(***************************************************************************)
(* Initial states                                                          *)
(***************************************************************************)
InitFiles == {NoDoc} \cup {MapDoc([k \in D |-> 0]) : D \in SUBSET FileKeys}

UpdateKeys == {"SessionID", "CompanyID", "Note", "Extra"}
UpdateArgs == UNION {[D -> NewVals] : D \in SUBSET UpdateKeys}

NotPersisted == [called |-> FALSE, updates |-> EmptyMap, prior |-> NoDoc]
Persisted(f, updates) == [called |-> TRUE, updates |-> updates, prior |-> f]

\* input records of reformat_dispatch
Chars == {"1", "a", ";", " "}
Strings == UNION {[1 .. k -> Chars] : k \in 0 .. MaxLen}
IntVals == {2, 10}

RichVals == {None} \cup {Str(s) : s \in Strings} \cup {Number(n) : n \in IntVals}
SmallVals == {None, Str(<<>>), Str(<<"a">>), Number(2)}

\* the line items: one with no attribute, with any one attribute, or with
\* a phase and a qty, over the small values; and those with a qty or a job
\* over all the values
ItemShapes == {{}} \cup {{k} : k \in LineKeys} \cup {{"phase", "qty"}}
SmallItems == UNION {[D -> SmallVals] : D \in ItemShapes}
RichItems(key) == {Field(key, v) : v \in RichVals}
LineItems == SmallItems \cup RichItems("qty") \cup RichItems("job")

ListsOf(items) == UNION {[1 .. k -> items] : k \in 0 .. MaxItems}
LineItemLists ==
  ListsOf(SmallItems) \cup ListsOf(RichItems("qty")) \cup ListsOf(RichItems("job"))

NoCrew == [isdict |-> TRUE, map |-> EmptyMap]
FieldEntry(has, catname, itemdesc, itemvalue) ==
  [has |-> has, catname |-> catname, itemdesc |-> itemdesc, itemvalue |-> itemvalue]

PlainHead == [scalars |-> EmptyMap, crew |-> NoCrew, fields |-> <<>>]

Heads ==
  { PlainHead,
    [scalars |-> [k \in {"shiftid", "tph"} |-> IF k = "tph" THEN None ELSE Number(2)],
     crew |-> [isdict |-> TRUE,
               map |-> [k \in {"firstname", "lastname"} |->
                          IF k = "firstname" THEN <<"a">> ELSE <<"1">>]],
     fields |-> <<FieldEntry({"catname", "itemdesc"}, "Job Number", Str(<<"a">>), None)>>],
    [scalars |-> Field("dispatchnotes", Str(<<"a">>)),
     crew |-> [isdict |-> TRUE, map |-> Field("firstname", <<"a">>)],
     fields |-> <<FieldEntry({"catname", "itemvalue"}, "phase", None,
                             List(<<Field("itemdesc", <<"a">>), EmptyMap,
                                    Field("itemdesc", <<"1">>)>>)),
                  FieldEntry({"catname", "itemdesc", "itemvalue"}, "Materials",
                             Str(<<>>), Str(<<"1">>)),
                  FieldEntry({"itemdesc"}, "", Str(<<"a">>), None)>>],
    [scalars |-> EmptyMap,
     crew |-> [isdict |-> FALSE, map |-> EmptyMap],
     fields |-> <<FieldEntry({"catname", "itemvalue"}, "qty", None, None),
                  FieldEntry({"catname", "itemvalue"}, "Job Number", None, Number(2))>>] }

Dispatch(head, items) ==
  [scalars |-> head.scalars, crew |-> head.crew, fields |-> head.fields,
   lineitems |-> items]

Dispatches ==
  {Dispatch(PlainHead, items) : items \in LineItemLists}
    \cup {Dispatch(head, items) : head \in Heads,
                                  items \in {<<>>} \cup {<<item>> : item \in LineItems}}

NoDispatch == Dispatch(PlainHead, <<>>)
NotReformatted == [done |-> FALSE, record |-> EmptyMap]

ClientInit ==
  /\ file \in InitFiles
  /\ op = "none"
  /\ pc = "idle"
  /\ attempt = 0
  /\ requests = <<>>
  /\ responses = <<>>
  /\ result = NoResult
  /\ persisted = NotPersisted

Init ==
  /\ ClientInit
  /\ dispatch = NoDispatch
  /\ reformatted = NotReformatted

(***************************************************************************)
(* Operations                                                              *)
(***************************************************************************)
Finish(r) ==
  /\ pc' = "done"
  /\ result' = r

\* load_config called on its own
CallLoadConfig ==
  /\ pc = "idle"
  /\ op' = "load_config"
  /\ Finish(load_config(file))
  /\ UNCHANGED <<file, attempt, requests, responses, persisted>>
  /\ UNCHANGED reformatVars

\* update_config_file called on its own
CallUpdateConfigFile(updates) ==
  /\ pc = "idle"
  /\ op' = "update_config_file"
  /\ file' = update_config_file(file, updates)
  /\ persisted' = Persisted(file, updates)
  /\ Finish(IF update_config_file_raises(file, updates)
            THEN Raise("TypeError") ELSE Ok(EmptyMap))
  /\ UNCHANGED <<attempt, requests, responses>>
  /\ UNCHANGED reformatVars

\* get_or_refresh_session up to the HTTP request of fetch_new_session
BeginRefresh ==
  LET loaded == load_config(file) IN
  IF loaded.kind = "error"
  THEN /\ Finish(loaded)
       /\ UNCHANGED requests
  ELSE /\ requests' = Append(requests, SessionRequest(loaded.value))
       /\ pc' = "await_session"
       /\ UNCHANGED result

\* make_api_call up to its HTTP request
BeginApiCall(n) ==
  LET loaded == load_config(file) IN
  /\ attempt' = n
  /\ IF loaded.kind = "error"
     THEN /\ Finish(loaded)
          /\ UNCHANGED requests
     ELSE /\ requests' = Append(requests, ApiRequest("getDispatchInfo", loaded.value))
          /\ pc' = "await_api"
          /\ UNCHANGED result

CallGetOrRefreshSession ==
  /\ pc = "idle"
  /\ op' = "get_or_refresh_session"
  /\ BeginRefresh
  /\ UNCHANGED <<file, attempt, responses, persisted>>
  /\ UNCHANGED reformatVars

CallMakeApiCall ==
  /\ pc = "idle"
  /\ op' = "make_api_call"
  /\ BeginApiCall(1)
  /\ UNCHANGED <<file, responses, persisted>>
  /\ UNCHANGED reformatVars

\* make_api_call from the answer to its request
ApiResponse(r) ==
  /\ pc = "await_api"
  /\ responses' = Append(responses, r)
  /\ IF r.kind = "fail"
     THEN /\ Finish(Raise("RequestException"))
          /\ UNCHANGED requests
     ELSE IF ShouldRetry(r.body, attempt)
     THEN BeginRefresh
     ELSE /\ Finish(Ok(r.body))
          /\ UNCHANGED requests
  /\ UNCHANGED <<file, op, attempt, persisted>>
  /\ UNCHANGED reformatVars

\* fetch_new_session from the answer to its request, the rest of
\* get_or_refresh_session, and in make_api_call the recursive call
SessionResponse(r) ==
  /\ pc = "await_session"
  /\ responses' = Append(responses, r)
  /\ IF SessionFailed(r)
     THEN /\ Finish(Raise(SessionError(r)))
          /\ UNCHANGED <<file, attempt, requests, persisted>>
     ELSE LET config == Merge(load_config(file).value, SessionInformation(r))
              written == update_config_file(file, config)
          IN /\ file' = written
             /\ persisted' = Persisted(file, config)
             /\ IF op = "get_or_refresh_session"
                THEN /\ Finish(Ok(config))
                     /\ UNCHANGED <<attempt, requests>>
                ELSE LET loaded == load_config(written) IN
                     /\ attempt' = attempt + 1
                     /\ IF loaded.kind = "error"
                        THEN /\ Finish(loaded)
                             /\ UNCHANGED requests
                        ELSE /\ requests' = Append(requests,
                                    ApiRequest("getDispatchInfo", loaded.value))
                             /\ pc' = "await_api"
                             /\ UNCHANGED result
  /\ UNCHANGED op
  /\ UNCHANGED reformatVars

Next ==
  \/ CallLoadConfig
  \/ \E updates \in UpdateArgs : CallUpdateConfigFile(updates)
  \/ CallGetOrRefreshSession
  \/ CallMakeApiCall
  \/ \E r \in ApiResponses : ApiResponse(r)
  \/ \E r \in SessionResponses : SessionResponse(r)

Spec == Init /\ [][Next]_vars

(***************************************************************************)
(* reformat_dispatch on its own                                            *)
(***************************************************************************)
InitReformat ==
  /\ file = NoDoc
  /\ op = "none"
  /\ pc = "idle"
  /\ attempt = 0
  /\ requests = <<>>
  /\ responses = <<>>
  /\ result = NoResult
  /\ persisted = NotPersisted
  /\ dispatch \in Dispatches
  /\ reformatted = NotReformatted

Reformat ==
  /\ ~reformatted.done
  /\ reformatted' = [done |-> TRUE, record |-> reformat_dispatch(dispatch)]
  /\ UNCHANGED dispatch
  /\ UNCHANGED clientVars

NextReformat == Reformat

SpecReformat == InitReformat /\ [][NextReformat]_vars

(***************************************************************************)
(* Properties                                                              *)
(***************************************************************************)
IsErrorCodeOne(r) ==
  r.kind = "json" /\ "ErrorCode" \in DOMAIN r.body /\ r.body["ErrorCode"] = 1

HasSessionInformation(r) ==
  r.kind = "json" /\ "SessionInformation" \in DOMAIN r.body

SessionKeys == {"SessionID", "SessionPassword"}
IdentityKeys == {"CompanyID", "Manager", "Passcode", "UserName"}

DispatchRequests == {i \in 1 .. Len(requests) : requests[i].Method = "getDispatchInfo"}

\* C1: when every getDispatchInfo request is answered with ErrorCode "1"
\* and every StartAPISession succeeds, one make_api_call sends at most 2
\* getDispatchInfo requests.
C1_AtMostTwoDispatchRequests ==
  ( /\ op = "make_api_call"
    /\ \A i \in 1 .. Len(responses) :
         IF requests[i].Method = "getDispatchInfo"
         THEN IsErrorCodeOne(responses[i])
         ELSE HasSessionInformation(responses[i]) )
  => Cardinality(DispatchRequests) <= 2

\* C2: in make_api_call, the getDispatchInfo request that follows a
\* successful StartAPISession carries as SessionID and SP the SessionID and
\* SessionPassword that StartAPISession returned.
C2_RetryCarriesNewSession ==
  op = "make_api_call" =>
    \A i \in 1 .. Len(responses) :
      HasSessionInformation(responses[i]) =>
        LET si == responses[i].body["SessionInformation"] IN
        /\ i + 1 <= Len(requests)
        /\ requests[i + 1].Method = "getDispatchInfo"
        /\ "SessionID" \in DOMAIN si =>
             requests[i + 1].params["SessionID"] = si["SessionID"]
        /\ "SessionPassword" \in DOMAIN si =>
             requests[i + 1].params["SP"] = si["SessionPassword"]

C2_Witness ==
  /\ op = "make_api_call"
  /\ Len(requests) >= 3
  /\ IsErrorCodeOne(responses[1])
  /\ HasSessionInformation(responses[2])
  /\ SessionKeys \subseteq DOMAIN responses[2].body["SessionInformation"]
  /\ requests[3].params["SessionID"] # requests[1].params["SessionID"]
  /\ requests[3].params["SP"] # requests[1].params["SP"]
  /\ requests[3].params["SP"] # requests[3].params["SessionID"]

\* C3: get_or_refresh_session returns a configuration whose SessionID and
\* SessionPassword are the ones StartAPISession returned, and the file
\* holds the same two values on return.
C3_RefreshReturnsAndPersists ==
  ( /\ op = "get_or_refresh_session"
    /\ Len(responses) = 1
    /\ HasSessionInformation(responses[1]) )
  => LET si == responses[1].body["SessionInformation"] IN
     /\ pc = "done"
     /\ result.kind = "ok"
     /\ file.doc = "map"
     /\ \A k \in SessionKeys \cap DOMAIN si :
          /\ k \in DOMAIN result.value /\ result.value[k] = si[k]
          /\ k \in DOMAIN file.map /\ file.map[k] = si[k]

C3_Witness ==
  /\ op = "get_or_refresh_session"
  /\ pc = "done"
  /\ Len(responses) = 1
  /\ HasSessionInformation(responses[1])
  /\ SessionKeys \subseteq DOMAIN responses[1].body["SessionInformation"]
  /\ file.map["SessionID"] = 1
  /\ file.map["SessionPassword"] = 2
  /\ result.value["SessionPassword"] = 2

\* C4: update_config_file changes only the keys that are both in updates
\* and required: every other key of the file keeps its value and no other
\* key is added, also when updates holds other keys.
C4_PersistChangesOnlyRequiredUpdates ==
  persisted.called =>
    IF persisted.prior.doc = "none" THEN file = persisted.prior
    ELSE /\ file.doc = "map"
         /\ \A k \in DOMAIN persisted.prior.map :
              (k \notin Required \/ k \notin DOMAIN persisted.updates) =>
                k \in DOMAIN file.map /\ file.map[k] = persisted.prior.map[k]
         /\ \A k \in DOMAIN file.map :
              k \in DOMAIN persisted.prior.map
                \/ (k \in Required /\ k \in DOMAIN persisted.updates)

C4_Witness ==
  /\ op = "get_or_refresh_session"
  /\ persisted.called
  /\ "Note" \in DOMAIN persisted.updates
  /\ "Note" \in DOMAIN persisted.prior.map
  /\ persisted.updates["Note"] # persisted.prior.map["Note"]
  /\ file.map["Note"] = persisted.prior.map["Note"]
  /\ file.map["SessionID"] # persisted.prior.map["SessionID"]
  /\ file.map["SessionPassword"] = persisted.prior.map["SessionPassword"]

\* C5: only a response with ErrorCode "1" makes make_api_call go on: after
\* a failed transport or status it raises the error and sends no further
\* request, and any other response is returned with no further request.
C5_RetryOnlyOnErrorCodeOne ==
  op = "make_api_call" =>
    \A i \in 1 .. Len(responses) :
      (requests[i].Method = "getDispatchInfo" /\ ~IsErrorCodeOne(responses[i])) =>
        /\ Len(requests) = i
        /\ pc = "done"
        /\ responses[i].kind = "fail" => result = Raise("RequestException")
        /\ responses[i].kind = "json" => result = Ok(responses[i].body)

C5_Witness ==
  /\ op = "make_api_call"
  /\ pc = "done"
  /\ Len(requests) = 1
  /\ responses[1].kind = "json"
  /\ "ErrorCode" \in DOMAIN responses[1].body
  /\ responses[1].body["ErrorCode"] = 2
  /\ result = Ok(responses[1].body)

\* C6: load_config raises the missing-fields ValueError whenever a required
\* key is absent from the file, and returns the file's values when all six
\* are there.
C6_LoadConfigContract ==
  (op = "load_config" /\ pc = "done") =>
    IF \E k \in Required : k \notin DOMAIN file.map
    THEN result = Raise("ValueError")
    ELSE result = Ok(file.map)

\* C7: on a configuration that has the identity fields but lacks SessionID
\* or SessionPassword, get_or_refresh_session sends StartAPISession rather
\* than failing.
C7_BootstrapWithoutSessionFields ==
  ( /\ op = "get_or_refresh_session"
    /\ Len(responses) = 0
    /\ file.doc = "map"
    /\ IdentityKeys \subseteq DOMAIN file.map
    /\ ~(SessionKeys \subseteq DOMAIN file.map) )
  => /\ pc = "await_session"
     /\ Len(requests) = 1
     /\ requests[1].Method = "StartAPISession"

\* C10: when the answer to StartAPISession is a failure or has no
\* SessionInformation, the call ends with an error, the file is as before
\* and no further request is sent.
C10_FailedRefreshStops ==
  [][ /\ ( /\ pc = "await_session"
           /\ Len(responses') = Len(responses) + 1
           /\ ~HasSessionInformation(responses'[Len(responses')]) )
         => /\ pc' = "done"
            /\ result'.kind = "error"
            /\ file' = file
            /\ requests' = requests
      /\ pc = "done" => (requests' = requests /\ file' = file) ]_vars

C10_Witness ==
  /\ op = "make_api_call"
  /\ pc = "done"
  /\ Len(responses) = 2
  /\ responses[2].kind = "json"
  /\ ~HasSessionInformation(responses[2])
  /\ result = Raise("ValueError")
  /\ Len(requests) = 2

(***************************************************************************)
(* Properties of reformat_dispatch                                         *)
(***************************************************************************)
TrackedAttributes == {"phase", "phasedesc", "qty", "notes", "mix", "mixdesc"}

\* the trimmed non-empty pieces of the joined qty string
QtyPieces ==
  LET pieces == Split(reformatted.record["qty"].s, ";")
      trimmed == [i \in 1 .. Len(pieces) |-> Strip(pieces[i])]
  IN SelectSeq(trimmed, LAMBDA piece : piece # <<>>)

RECURSIVE SumOfPieces(_)
SumOfPieces(pieces) ==
  IF pieces = <<>> THEN 0 ELSE FloatOf(Head(pieces)) + SumOfPieces(Tail(pieces))

\* C8: Material Tonnage is the sum of the non-empty pieces of the joined
\* qty string when each of them is a number, and 0 when one of them is not
\* or when there is none.
C8_MaterialTonnage ==
  reformatted.done =>
    /\ "Material Tonnage" \in DOMAIN reformatted.record
    /\ reformatted.record["Material Tonnage"] =
         Number(IF \A i \in 1 .. Len(QtyPieces) : ParsesAsFloat(QtyPieces[i])
                THEN SumOfPieces(QtyPieces)
                ELSE 0)

C8_Witness ==
  /\ reformatted.done
  /\ \E i \in 1 .. Len(QtyPieces) : ParsesAsFloat(QtyPieces[i]) /\ FloatOf(QtyPieces[i]) > 0
  /\ \E i \in 1 .. Len(QtyPieces) : ~ParsesAsFloat(QtyPieces[i])
  /\ reformatted.record["Material Tonnage"] = Number(0)

\* the values of an attribute that the line items selected by Keep give
Contributions(key, Keep(_)) ==
  LET items == SelectSeq(dispatch.lineitems,
                         LAMBDA item : key \in DOMAIN item /\ Keep(item[key]))
  IN [i \in 1 .. Len(items) |-> StrOf(items[i][key])]

NotNull(v) == v.t # "none"
NotEmpty(v) == v.t # "none" /\ StrOf(v) # <<>>

\* C9 as stated: every tracked attribute is a key of the result, with the
\* "; "-join, in order, of the values that are neither absent nor empty.
C9_JoinsNonEmptyValues ==
  reformatted.done =>
    \A key \in TrackedAttributes :
      /\ key \in DOMAIN reformatted.record
      /\ reformatted.record[key] = Str(Join(Contributions(key, NotEmpty), <<";", " ">>))

\* C9 amended: every tracked attribute is a key of the result, with the
\* "; "-join, in order, of the values that are neither absent nor null; an
\* empty string is joined like any other value.
C9_JoinsNonNullValues ==
  reformatted.done =>
    \A key \in TrackedAttributes :
      /\ key \in DOMAIN reformatted.record
      /\ reformatted.record[key] = Str(Join(Contributions(key, NotNull), <<";", " ">>))

C9_Witness ==
  /\ reformatted.done
  /\ Len(dispatch.lineitems) = 2
  /\ "phase" \in DOMAIN dispatch.lineitems[1]
  /\ dispatch.lineitems[1]["phase"] = Str(<<>>)
  /\ "phase" \in DOMAIN dispatch.lineitems[2]
  /\ dispatch.lineitems[2]["phase"] = Number(2)
  /\ reformatted.record["phase"] = Str(<<";", " ", "2">>)
  /\ reformatted.record["notes"] = Str(<<>>)

====
